---- MODULE Spec2Model ----
(***************************************************************************)
(* Model of src/src/parsing.rs: the pipeline                               *)
(*   parse_yaml -> get_applications -> patch_applications                  *)
(* of get_applications_as_string.                                          *)
(*                                                                         *)
(* A serde_yaml::Value is a tagged record:                                 *)
(*   [t |-> "null"], [t |-> "str", s |-> ..], [t |-> "num", n |-> ..],     *)
(*   [t |-> "bool", b |-> ..], [t |-> "seq", q |-> <<values>>],            *)
(*   [t |-> "map", m |-> <<entries>>]  with entries [k |-> key, v |-> val] *)
(* A Mapping keeps its insertion order (it is an IndexMap), so it is a     *)
(* sequence of entries with pairwise different keys.                       *)
(*                                                                         *)
(* A Rust panic is the value Panic; it propagates through every operator   *)
(* and ends the run in pc = "panicked" with no output.                     *)
(*                                                                         *)
(* Text is modelled line by line.  A line of a file is the separator       *)
(* line "---", a line that makes its document unparsable, or one top-level *)
(* entry "key: value" of a block mapping (the value written inline).       *)
(* serde_yaml::to_string writes one such entry per top-level key.          *)
(***************************************************************************)
EXTENDS Integers, Sequences, FiniteSets

VARIABLES
    files,          \* get_yaml_files' result: one sequence of lines per file
    selector,       \* &Option<Vec<Selector>>
    branch,         \* &str
    repo,           \* &str
    k8s_resources,  \* Vec<K8sResource>, the result of parse_yaml
    applications,   \* Vec<Application>, the result of get_applications
    patched,        \* Vec<Application> after the map/filter_map of patch_applications
    output,         \* the String patch_applications returns
    repatched,      \* patch_applications applied to its own result
    pc              \* position in get_applications_as_string

vars == <<files, selector, branch, repo, k8s_resources, applications,
          patched, output, repatched, pc>>

(***************************************************************************)
(* Bounds of the model.                                                    *)
(***************************************************************************)
MaxFiles == 2
MaxLines == 4
MaxDocs == 1
MaxClauses == 2
MaxApps == 2

(***************************************************************************)
(* serde_yaml::Value                                                       *)
(***************************************************************************)
Null == [t |-> "null"]
Str(s) == [t |-> "str", s |-> s]
Num(n) == [t |-> "num", n |-> n]
BoolV(b) == [t |-> "bool", b |-> b]
SeqV(q) == [t |-> "seq", q |-> q]
Map(m) == [t |-> "map", m |-> m]
Panic == [t |-> "panic"]

E(name, v) == [k |-> Str(name), v |-> v]

\* Option<T>
None == [some |-> FALSE]
Some(x) == [some |-> TRUE, v |-> x]

\* Position of key in the mapping's entries, 0 when the key is absent.
MapIdx(m, key) ==
    IF \E i \in 1..Len(m) : m[i].k = key
    THEN CHOOSE i \in 1..Len(m) : m[i].k = key
    ELSE 0

\* Mapping::contains_key(&str)
contains_key(m, name) == MapIdx(m, Str(name)) # 0

\* swap_remove that pops the last entry when the key is absent.
swap_remove_pop(m, name) ==
    LET i == MapIdx(m, Str(name))
        n == Len(m)
    IN  IF n = 0 THEN m
        ELSE IF i = 0 \/ i = n THEN SubSeq(m, 1, n - 1)
        ELSE [j \in 1..(n - 1) |-> IF j = i THEN m[n] ELSE m[j]]

\* Mapping::remove(&str), which is swap_remove: the last entry takes the
\* place of the removed one.
swap_remove(m, name) ==
    LET i == MapIdx(m, Str(name))
        n == Len(m)
    IN  IF i = 0 THEN m
        ELSE IF i = n THEN SubSeq(m, 1, n - 1)
        ELSE [j \in 1..(n - 1) |-> IF j = i THEN m[n] ELSE m[j]]

\* Value's Index<&str>, read only: v[name] is Null when v is no mapping or
\* has no such key.
Index(v, name) ==
    IF v.t = "map" /\ contains_key(v.m, name)
    THEN v.m[MapIdx(v.m, Str(name))].v
    ELSE Null

\* Value::as_str().is_some()
is_str(v) == v.t = "str"

\* Value's IndexMut<&str> (index_or_insert) along path, then an assignment:
\* v[p1][p2].. = new.  A Null on the way becomes an empty mapping, a missing
\* key is inserted at the end, and any other non-mapping value panics.
RECURSIVE index_or_insert_set(_, _, _)
index_or_insert_set(v, path, new) ==
    IF path = <<>> THEN new
    ELSE LET name == Head(path)
             base == IF v.t = "null" THEN Map(<<>>) ELSE v
         IN  IF base.t # "map" THEN Panic
             ELSE LET i == MapIdx(base.m, Str(name))
                      old == IF i = 0 THEN Null ELSE base.m[i].v
                      sub == index_or_insert_set(old, Tail(path), new)
                  IN  IF sub.t = "panic" THEN Panic
                      ELSE IF i = 0 THEN Map(Append(base.m, E(name, sub)))
                      ELSE Map([base.m EXCEPT ![i].v = sub])

\* The value that v[p1][p2].. borrows mutably: Null where index_or_insert
\* had to insert, Panic where it met a non-mapping value.
RECURSIVE index_or_insert_get(_, _)
index_or_insert_get(v, path) ==
    IF path = <<>> THEN v
    ELSE IF v.t \in {"null", "map"}
    THEN index_or_insert_get(Index(v, Head(path)), Tail(path))
    ELSE Panic

\* The characters of the strings that str::contains is applied to.
Chars(s) ==
    CASE s = "" -> <<>>
      [] s = "org/repo" -> <<"o", "r", "g", "/", "r", "e", "p", "o">>
      [] s = "https://github.com/org/repo.git" ->
            <<"h", "t", "t", "p", "s", ":", "/", "/", "g", "i", "t", "h", "u",
              "b", ".", "c", "o", "m", "/", "o", "r", "g", "/", "r", "e", "p",
              "o", ".", "g", "i", "t">>
      [] s = "https://charts.example.com/stable" ->
            <<"h", "t", "t", "p", "s", ":", "/", "/", "c", "h", "a", "r", "t",
              "s", ".", "e", "x", "a", "m", "p", "l", "e", ".", "c", "o", "m",
              "/", "s", "t", "a", "b", "l", "e">>

\* str::contains(&str)
contains(url, pat) ==
    LET u == Chars(url)
        p == Chars(pat)
    IN  \E i \in 1..(Len(u) - Len(p) + 1) : SubSeq(u, i, i + Len(p) - 1) = p

(***************************************************************************)
(* parse_yaml                                                              *)
(***************************************************************************)
SepLine == [l |-> "---"]
BadLine == [l |-> "{{"]
KV(name, v) == [l |-> "kv", k |-> Str(name), v |-> v]

\* The fold of lines 89-98: a separator line opens a new chunk, any other
\* line is pushed onto the last chunk.
RECURSIVE fold_lines(_, _)
fold_lines(acc, lines) ==
    IF lines = <<>> THEN acc
    ELSE LET s == Head(lines)
         IN  fold_lines(IF s = SepLine
                        THEN Append(acc, <<>>)
                        ELSE [acc EXCEPT ![Len(acc)] = Append(@, s)],
                        Tail(lines))

raw_yaml_chunks(lines) == fold_lines(<< <<>> >>, lines)

\* serde_yaml::from_str with the Err arm of lines 102-108: a chunk with an
\* unparsable line or a repeated key is an error, hence Null; a chunk with
\* no line is the empty document, Null as well.
from_str(chunk) ==
    IF \/ chunk = <<>>
       \/ \E i \in 1..Len(chunk) : chunk[i].l # "kv"
       \/ \E i, j \in 1..Len(chunk) : i < j /\ chunk[i].k = chunk[j].k
    THEN Null
    ELSE Map([i \in 1..Len(chunk) |-> [k |-> chunk[i].k, v |-> chunk[i].v]])

\* yaml_vec collecting a Result: one chunk that fails to parse discards the
\* whole file.
yaml_vec_all_or_nothing(f, lines) ==
    LET chunks == raw_yaml_chunks(lines)
    IN  IF \E i \in 1..Len(chunks) : from_str(chunks[i]) = Null
        THEN <<>>
        ELSE [i \in 1..Len(chunks) |-> [file_name |-> f, yaml |-> from_str(chunks[i])]]

\* Lines 101-114: one K8sResource per chunk of file f.
yaml_vec(f, lines) ==
    LET chunks == raw_yaml_chunks(lines)
    IN  [i \in 1..Len(chunks) |-> [file_name |-> f, yaml |-> from_str(chunks[i])]]

RECURSIVE flat_map_files(_, _)
flat_map_files(fs, f) ==
    IF f > Len(fs) THEN <<>>
    ELSE yaml_vec(f, fs[f]) \o flat_map_files(fs, f + 1)

parse_yaml(fs) == flat_map_files(fs, 1)

(***************************************************************************)
(* get_applications                                                        *)
(***************************************************************************)
\* Lines 243-251.
application_kind(yaml) ==
    LET kind == Index(yaml, "kind")
    IN  IF is_str(kind) /\ kind.s = "Application" THEN Some("Application")
        ELSE IF is_str(kind) /\ kind.s = "ApplicationSet" THEN Some("ApplicationSet")
        ELSE None

\* ignored reading the annotation from metadata.labels.
ignored_under_labels(yaml) ==
    Index(Index(Index(yaml, "metadata"), "labels"),
          "argocd-diff-preview/ignore") = Str("true")

\* Lines 253-255.
ignored(yaml) ==
    Index(Index(Index(yaml, "metadata"), "annotations"),
          "argocd-diff-preview/ignore") = Str("true")

\* Lines 266-273: the (key, value) pairs of metadata.labels that are both
\* strings.
BothStr(e) == is_str(e.k) /\ is_str(e.v)

labels_of(yaml) ==
    LET l == Index(Index(yaml, "metadata"), "labels")
    IN  IF l.t = "map" THEN SelectSeq(l.m, BothStr) ELSE <<>>

\* selected with Ne asking for the key to be there with another value.
selected_ne_needs_key(sel, labels) ==
    \A c \in 1..Len(sel) :
        IF sel[c].operator = "Eq"
        THEN \E j \in 1..Len(labels) :
                labels[j].k.s = sel[c].key /\ labels[j].v.s = sel[c].value
        ELSE \E j \in 1..Len(labels) :
                labels[j].k.s = sel[c].key /\ labels[j].v.s # sel[c].value

\* Lines 276-279.
selected(sel, labels) ==
    \A c \in 1..Len(sel) :
        IF sel[c].operator = "Eq"
        THEN \E j \in 1..Len(labels) :
                labels[j].k.s = sel[c].key /\ labels[j].v.s = sel[c].value
        ELSE \A j \in 1..Len(labels) :
                labels[j].k.s # sel[c].key \/ labels[j].v.s # sel[c].value

\* The filter_map closure of lines 241-301.
to_application(r, sel) ==
    LET kind == application_kind(r.yaml)
    IN  IF ~kind.some THEN None
        ELSE IF ignored(r.yaml) THEN None
        ELSE IF sel.some /\ ~selected(sel.v, labels_of(r.yaml)) THEN None
        ELSE Some([kind |-> kind.v, file_name |-> r.file_name, yaml |-> r.yaml])

RECURSIVE filter_map(_, _)
filter_map(opts, i) ==
    IF i > Len(opts) THEN <<>>
    ELSE (IF opts[i].some THEN <<opts[i].v>> ELSE <<>>) \o filter_map(opts, i + 1)

get_applications(rs, sel) ==
    filter_map([i \in 1..Len(rs) |-> to_application(rs[i], sel)], 1)

(***************************************************************************)
(* patch_applications                                                      *)
(***************************************************************************)
\* Mapping's IndexMut<&str>, spec[name] = new: unlike Value's it inserts
\* nothing, and panics (unwrap of None) when the key is absent.
mapping_index_set(spec, name, new) ==
    LET i == MapIdx(spec.m, Str(name))
    IN  IF i = 0 THEN Panic ELSE Map([spec.m EXCEPT ![i].v = new])

\* Lines 129-138.
point_destination_to_in_cluster(spec) ==
    IF contains_key(spec.m, "destination")
    THEN LET named == index_or_insert_set(Index(spec, "destination"),
                                          <<"name">>, Str("in-cluster"))
         IN  IF named.t = "panic" THEN Panic
             ELSE mapping_index_set(spec, "destination",
                                    IF named.t = "map"
                                    THEN Map(swap_remove(named.m, "server"))
                                    ELSE named)
    ELSE spec

\* Lines 140-145.
set_project_to_default(spec) == mapping_index_set(spec, "project", Str("default"))

\* Lines 147-151.
remove_sync_policy(spec) == Map(swap_remove(spec.m, "syncPolicy"))

\* Lines 156-166: the rule for spec.source.
redirect_source(source, br, rp) ==
    IF is_str(Index(source, "chart")) THEN source
    ELSE LET url == Index(source, "repoURL")
         IN  IF is_str(url) /\ contains(url.s, rp)
             THEN index_or_insert_set(source, <<"targetRevision">>, Str(br))
             ELSE source

\* Lines 170-180: the body of the loop over spec.sources.
redirect_sources_entry(source, br, rp) ==
    IF is_str(Index(source, "chart")) THEN source
    ELSE LET url == Index(source, "repoURL")
         IN  IF is_str(url) /\ contains(url.s, rp)
             THEN index_or_insert_set(source, <<"targetRevision">>, Str(br))
             ELSE source

\* redirect_sources with `break` where line 172 has `continue`: the entries
\* after a Helm chart entry are not visited.
redirect_sources_break(spec, br, rp) ==
    IF contains_key(spec.m, "source")
    THEN mapping_index_set(spec, "source",
                           redirect_source(Index(spec, "source"), br, rp))
    ELSE IF contains_key(spec.m, "sources")
    THEN LET sources == Index(spec, "sources")
             Visited(i) == \A j \in 1..(i - 1) : ~is_str(Index(sources.q[j], "chart"))
         IN  IF sources.t = "seq"
             THEN mapping_index_set(spec, "sources",
                    SeqV([i \in 1..Len(sources.q) |->
                            IF Visited(i)
                            THEN redirect_sources_entry(sources.q[i], br, rp)
                            ELSE sources.q[i]]))
             ELSE spec
    ELSE spec

\* Lines 153-184.
redirect_sources(spec, br, rp) ==
    IF contains_key(spec.m, "source")
    THEN mapping_index_set(spec, "source",
                           redirect_source(Index(spec, "source"), br, rp))
    ELSE IF contains_key(spec.m, "sources")
    THEN LET sources == Index(spec, "sources")
         IN  IF sources.t = "seq"
             THEN mapping_index_set(spec, "sources",
                    SeqV([i \in 1..Len(sources.q) |->
                            redirect_sources_entry(sources.q[i], br, rp)]))
             ELSE spec
    ELSE spec

\* Lines 188-193: a.yaml["metadata"]["namespace"] = "argocd".
set_namespace(a) ==
    index_or_insert_set(a.yaml, <<"metadata", "namespace">>, Str("argocd"))

\* Lines 196-201: where the spec of each kind lives.
spec_path(kind) ==
    IF kind = "Application" THEN <<"spec">> ELSE <<"spec", "template", "spec">>

\* Lines 194-212, after set_namespace: Panic, None (dropped) or
\* Some(application).
clean_up_spec(a, yaml, br, rp) ==
    IF yaml.t = "panic" THEN Panic
    ELSE LET spec == index_or_insert_get(yaml, spec_path(a.kind))
         IN  IF spec.t = "panic" THEN Panic
             ELSE IF spec.t # "map" THEN None
             ELSE LET s1 == remove_sync_policy(spec)
                      s2 == set_project_to_default(s1)
                      s3 == IF s2.t = "panic" THEN Panic
                            ELSE point_destination_to_in_cluster(s2)
                      s4 == IF s3.t = "panic" THEN Panic
                            ELSE redirect_sources(s3, br, rp)
                  IN  IF s4.t = "panic" THEN Panic
                      ELSE Some([kind |-> a.kind, file_name |-> a.file_name,
                                 yaml |-> index_or_insert_set(yaml, spec_path(a.kind), s4)])

patch_one(a, br, rp) == clean_up_spec(a, set_namespace(a), br, rp)

\* Lines 186-213: every application patched, in order.
patch_all(apps, br, rp) == [i \in 1..Len(apps) |-> patch_one(apps[i], br, rp)]

panics(results) == \E i \in 1..Len(results) : ~("some" \in DOMAIN results[i])

\* serde_yaml::to_string of a document: one line per top-level entry.
to_string(yaml) ==
    IF yaml.t = "map"
    THEN [i \in 1..Len(yaml.m) |-> [l |-> "kv", k |-> yaml.m[i].k, v |-> yaml.m[i].v]]
    ELSE <<[l |-> "scalar", v |-> yaml]>>

\* Lines 223-227.
RECURSIVE push_all(_, _, _)
push_all(out, apps, i) ==
    IF i > Len(apps) THEN out
    ELSE push_all(out \o to_string(apps[i].yaml) \o <<SepLine>>, apps, i + 1)

\* serialize writing the separator between the documents only.
serialize_join(apps) ==
    LET out == push_all(<<>>, apps, 1)
    IN  IF out = <<>> THEN out ELSE SubSeq(out, 1, Len(out) - 1)

serialize(apps) == push_all(<<>>, apps, 1)

(***************************************************************************)
(* The steps of get_applications_as_string                                 *)
(***************************************************************************)
\* Line 35.
ParseYaml ==
    /\ pc = "start"
    /\ k8s_resources' = parse_yaml(files)
    /\ pc' = "parsed"
    /\ UNCHANGED <<files, selector, branch, repo, applications, patched, output, repatched>>

\* Line 38.
GetApplications ==
    /\ pc = "parsed"
    /\ applications' = get_applications(k8s_resources, selector)
    /\ pc' = "filtered"
    /\ UNCHANGED <<files, selector, branch, repo, k8s_resources, patched, output, repatched>>

\* Line 41: a panic in a closure ends the run with no output.
PatchApplications ==
    /\ pc = "filtered"
    /\ LET results == patch_all(applications, branch, repo)
       IN  IF panics(results)
           THEN /\ pc' = "panicked"
                /\ UNCHANGED <<patched, output>>
           ELSE /\ patched' = filter_map(results, 1)
                /\ output' = serialize(filter_map(results, 1))
                /\ pc' = "done"
    /\ UNCHANGED <<files, selector, branch, repo, k8s_resources, applications, repatched>>

\* patch_applications applied, with the same branch and repo, to the
\* applications it returned.
PatchAgain ==
    /\ pc = "done"
    /\ LET results == patch_all(patched, branch, repo)
       IN  IF panics(results)
           THEN /\ pc' = "repanicked"
                /\ UNCHANGED repatched
           ELSE /\ repatched' = filter_map(results, 1)
                /\ pc' = "redone"
    /\ UNCHANGED <<files, selector, branch, repo, k8s_resources, applications, patched, output>>

(***************************************************************************)
(* Inputs                                                                  *)
(***************************************************************************)
RECURSIVE SeqsOfLen(_, _)
SeqsOfLen(S, n) ==
    IF n = 0 THEN {<<>>}
    ELSE {Append(q, x) : q \in SeqsOfLen(S, n - 1), x \in S}

SeqsUpTo(S, n) == UNION {SeqsOfLen(S, k) : k \in 0..n}

UrlRepo == "https://github.com/org/repo.git"
UrlOther == "https://charts.example.com/stable"

Branches == {"preview-123", "HEAD"}
Repos == {"org/repo", ""}

\* The spec of an ApplicationSet holds the application's spec under
\* template.spec.
InTemplate(body) ==
    Map(<<E("generators", SeqV(<<>>)), E("template", Map(<<E("spec", body)>>))>>)

SpecEntry(kind, body) ==
    E("spec", IF kind = "Application" THEN body ELSE InTemplate(body))

\* ---- files of the whole pipeline ----
FullBody ==
    Map(<<E("syncPolicy", Map(<<E("automated", Map(<<>>))>>)),
          E("project", Str("team")),
          E("destination", Map(<<E("server", Str("https://kubernetes.default.svc"))>>)),
          E("source", Map(<<E("repoURL", Str(UrlRepo))>>))>>)

KindLine == KV("kind", Str("Application"))
SpecLine == KV("spec", FullBody)
LineTokens == {SepLine, BadLine, KindLine, SpecLine}

\* The lists of at most nfiles files that hold at most budget lines in all.
RECURSIVE FileLists(_, _)
FileLists(nfiles, budget) ==
    IF nfiles = 0 THEN {<<>>}
    ELSE {<<>>} \cup
         UNION {{<<f>> \o rest : rest \in FileLists(nfiles - 1, budget - Len(f))} :
                f \in SeqsUpTo(LineTokens, budget)}

\* ---- documents handed to get_applications ----
Labels(m) == E("labels", Map(m))
Ignore(v) == E("annotations", Map(<<E("argocd-diff-preview/ignore", v)>>))

FilterMetadata ==
    {<<>>,
     <<E("metadata", Str("x"))>>,
     <<E("metadata", Map(<<Ignore(Str("true")), Labels(<<E("env", Str("prod"))>>)>>))>>,
     <<E("metadata", Map(<<Ignore(Str("true"))>>))>>,
     <<E("metadata", Map(<<Ignore(Str("false")), Labels(<<E("env", Str("prod"))>>)>>))>>,
     <<E("metadata", Map(<<Ignore(BoolV(TRUE)), Labels(<<E("env", Str("dev"))>>)>>))>>,
     <<E("metadata", Map(<<E("annotations", Str("x")), Labels(<<E("env", Str("prod"))>>)>>))>>,
     <<E("metadata", Map(<<Labels(<<E("env", Str("dev"))>>)>>))>>,
     <<E("metadata", Map(<<Labels(<<E("env", Num(7))>>)>>))>>,
     <<E("metadata", Map(<<Labels(<<E("env", Str("prod")), E("tier", Str("web"))>>)>>))>>,
     <<E("metadata", Map(<<Labels(<<[k |-> BoolV(TRUE), v |-> Str("prod")],
                                   E("tier", Str("web"))>>)>>))>>,
     <<E("metadata", Map(<<E("labels", Str("env=prod"))>>))>>}

SimpleBody == Map(<<E("project", Str("team"))>>)

FilterDocs ==
    {Map(<<E("kind", Str(kind))>> \o md \o <<SpecEntry(kind, SimpleBody)>>) :
        kind \in {"Application", "ApplicationSet", "ConfigMap"}, md \in FilterMetadata}
    \cup {Map(<<E("kind", Num(7)), E("spec", SimpleBody)>>),
          Map(<<E("spec", SimpleBody)>>),
          Null}

Clauses ==
    {[key |-> "env", operator |-> "Eq", value |-> "prod"],
     [key |-> "env", operator |-> "Ne", value |-> "prod"],
     [key |-> "env", operator |-> "Ne", value |-> "dev"],
     [key |-> "tier", operator |-> "Eq", value |-> "web"]}

Selectors == {None} \cup {Some(q) : q \in SeqsUpTo(Clauses, MaxClauses)}

\* ---- applications handed to patch_applications ----
PatchMetadata ==
    {<<>>,
     <<E("metadata", Map(<<E("name", Str("app"))>>))>>,
     <<E("metadata", Map(<<E("namespace", Str("team-a")), E("name", Str("app"))>>))>>,
     <<E("metadata", Str("x"))>>}

SyncOpts == {<<>>, <<E("syncPolicy", Map(<<E("automated", Map(<<>>))>>))>>}

ProjectOpts == {<<>>, <<E("project", Str("team"))>>}

DestinationOpts ==
    {<<>>,
     <<E("destination", Map(<<E("server", Str("https://kubernetes.default.svc")),
                              E("namespace", Str("prod"))>>))>>,
     <<E("destination", Map(<<E("name", Str("remote")),
                              E("server", Str("https://kubernetes.default.svc"))>>))>>,
     <<E("destination", Null)>>,
     <<E("destination", Str("in-cluster"))>>,
     <<E("destination", SeqV(<<>>))>>}

Src(url) == E("repoURL", Str(url))
Rev(r) == E("targetRevision", Str(r))

SourceOpts ==
    {<<>>,
     <<E("source", Map(<<Src(UrlRepo)>>))>>,
     <<E("source", Map(<<Src(UrlOther)>>))>>,
     <<E("source", Map(<<Src(UrlRepo), Rev("HEAD")>>))>>,
     <<E("source", Map(<<Src(UrlOther), Rev("HEAD")>>))>>,
     <<E("source", Map(<<Src(UrlRepo), E("chart", Str("my-chart"))>>))>>,
     <<E("source", Map(<<Src(UrlRepo), E("chart", Str("my-chart")), Rev("1.2.3")>>))>>,
     <<E("source", Map(<<Src(UrlRepo), E("chart", Num(7))>>))>>,
     <<E("source", Map(<<Src(UrlRepo), E("chart", Null), Rev("HEAD")>>))>>,
     <<E("source", Map(<<Rev("HEAD")>>))>>,
     <<E("source", Map(<<E("repoURL", Num(7))>>))>>,
     <<E("source", Str("x"))>>,
     <<E("source", Null)>>,
     <<E("sources", SeqV(<<Map(<<Src(UrlRepo), E("chart", Str("my-chart"))>>),
                           Map(<<Src(UrlRepo)>>)>>))>>,
     <<E("sources", SeqV(<<Map(<<Src(UrlOther)>>),
                           Map(<<Src(UrlRepo), Rev("HEAD")>>)>>))>>,
     <<E("sources", SeqV(<<Str("x"), Map(<<Src(UrlRepo)>>)>>))>>,
     <<E("sources", Str("x"))>>,
     <<E("source", Map(<<Src(UrlRepo)>>)), E("sources", SeqV(<<Map(<<Src(UrlRepo)>>)>>))>>,
     <<E("source", Map(<<Src(UrlRepo), E("chart", Str("my-chart"))>>)),
       E("sources", SeqV(<<Map(<<Src(UrlRepo)>>)>>))>>,
     <<E("source", Str("x")), E("sources", SeqV(<<Map(<<Src(UrlRepo)>>)>>))>>}

Bodies ==
    {Map(sy \o pr \o de \o so) :
        sy \in SyncOpts, pr \in ProjectOpts, de \in DestinationOpts, so \in SourceOpts}

App(kind, yaml) == [kind |-> kind, file_name |-> 1, yaml |-> yaml]

RichApps ==
    {App(kind, Map(<<E("kind", Str(kind))>> \o md \o <<SpecEntry(kind, body)>>)) :
        kind \in {"Application", "ApplicationSet"}, md \in PatchMetadata, body \in Bodies}

\* What the spec path of an application can hold instead of a mapping.
ShapeSpecs ==
    {<<>>,
     <<E("spec", Null)>>,
     <<E("spec", Str("x"))>>,
     <<E("spec", SeqV(<<SimpleBody>>))>>,
     <<E("spec", SimpleBody)>>,
     <<E("spec", Map(<<E("template", Str("x"))>>))>>,
     <<E("spec", Map(<<E("template", Map(<<E("spec", Str("x"))>>))>>))>>,
     <<E("spec", InTemplate(FullBody))>>}

ShapeApps ==
    {App(kind, Map(<<E("kind", Str(kind))>> \o sp)) :
        kind \in {"Application", "ApplicationSet"}, sp \in ShapeSpecs}

(***************************************************************************)
(* Specifications                                                          *)
(***************************************************************************)
Idle ==
    /\ patched = <<>>
    /\ output = <<>>
    /\ repatched = <<>>

\* get_applications_as_string from the files on.
Init ==
    /\ files \in FileLists(MaxFiles, MaxLines)
    /\ selector = None
    /\ branch = "preview-123"
    /\ repo = "org/repo"
    /\ k8s_resources = <<>>
    /\ applications = <<>>
    /\ Idle
    /\ pc = "start"

Next == ParseYaml \/ GetApplications \/ PatchApplications

Spec == Init /\ [][Next]_vars

\* get_applications on any parsed documents and selector, then
\* patch_applications.
InitFilter ==
    /\ files = <<>>
    /\ selector \in Selectors
    /\ branch = "preview-123"
    /\ repo = "org/repo"
    /\ k8s_resources \in {[i \in 1..Len(ds) |-> [file_name |-> 1, yaml |-> ds[i]]] :
                            ds \in SeqsUpTo(FilterDocs, MaxDocs)}
    /\ applications = <<>>
    /\ Idle
    /\ pc = "parsed"

NextFilter == GetApplications \/ PatchApplications

SpecFilter == InitFilter /\ [][NextFilter]_vars

\* patch_applications on any applications, branch and repo, then once more
\* on its result.
InitPatch ==
    /\ files = <<>>
    /\ selector = None
    /\ branch \in Branches
    /\ repo \in Repos
    /\ k8s_resources = <<>>
    /\ applications \in {<<a>> : a \in RichApps} \cup SeqsUpTo(ShapeApps, MaxApps)
    /\ Idle
    /\ pc = "filtered"

NextPatch == PatchApplications \/ PatchAgain

SpecPatch == InitPatch /\ [][NextPatch]_vars

(***************************************************************************)
(* Properties                                                              *)
(*                                                                         *)
(* They read the documents directly: Fields(v, name) is the set of values  *)
(* the mapping v holds under the key name (empty when v is not a mapping   *)
(* or has no such key).                                                    *)
(***************************************************************************)
Fields(v, name) ==
    IF v.t = "map"
    THEN {v.m[i].v : i \in {j \in 1..Len(v.m) : v.m[j].k = Str(name)}}
    ELSE {}

Recognised(yaml) ==
    Fields(yaml, "kind") \cap {Str("Application"), Str("ApplicationSet")} # {}

IgnoreAnnotated(yaml) ==
    \E md \in Fields(yaml, "metadata") :
        \E an \in Fields(md, "annotations") :
            Str("true") \in Fields(an, "argocd-diff-preview/ignore")

HasLabel(yaml, key, value) ==
    \E md \in Fields(yaml, "metadata") :
        \E ls \in Fields(md, "labels") : Str(value) \in Fields(ls, key)

ClauseSatisfied(c, yaml) ==
    IF c.operator = "Eq"
    THEN HasLabel(yaml, c.key, c.value)
    ELSE ~HasLabel(yaml, c.key, c.value)

\* The values at the kind's spec path.
SpecVals(yaml, kind) ==
    IF kind = "Application" THEN Fields(yaml, "spec")
    ELSE UNION {UNION {Fields(tp, "spec") : tp \in Fields(sp, "template")} :
                sp \in Fields(yaml, "spec")}

SpecMaps(a) == \E sp \in SpecVals(a.yaml, a.kind) : sp.t = "map"

BodyOf(a) == CHOOSE sp \in SpecVals(a.yaml, a.kind) : TRUE

\* The k-th smallest element of the set J of numbers.
NthOf(J, k) == CHOOSE j \in J : Cardinality({x \in J : x <= j}) = k

\* The documents of the output: what lies before each separator line.
OutputDocs ==
    LET chunks == raw_yaml_chunks(output)
    IN  [i \in 1..(Len(chunks) - 1) |-> from_str(chunks[i])]

Returned == pc \in {"done", "redone", "repanicked"}

\* The applications whose spec path holds a mapping, and the one the k-th
\* patched application comes from.
KeptIdx == {i \in 1..Len(applications) : SpecMaps(applications[i])}

OriginOf(k) == applications[NthOf(KeptIdx, k)]

\* ---------------------------------------------------------------- C1
\* C1: an application returned by get_applications is one of the parsed
\* documents, has kind "Application" or "ApplicationSet" as a string and
\* does not carry the annotation argocd-diff-preview/ignore = "true"; so
\* does every document of the final output, whatever the selector.
C1_OnlyRecognisedNotIgnored ==
    /\ pc # "parsed" =>
          \A i \in 1..Len(applications) :
              /\ \E j \in 1..Len(k8s_resources) :
                    k8s_resources[j].yaml = applications[i].yaml
              /\ Recognised(applications[i].yaml)
              /\ ~IgnoreAnnotated(applications[i].yaml)
    /\ pc = "done" =>
          \A i \in 1..Len(OutputDocs) :
              Recognised(OutputDocs[i]) /\ ~IgnoreAnnotated(OutputDocs[i])

\* An annotated Application that satisfies a selector of at least one clause
\* was dropped: nothing is in the output.
C1_Witness ==
    /\ pc = "done"
    /\ Len(k8s_resources) = 1
    /\ Recognised(k8s_resources[1].yaml)
    /\ IgnoreAnnotated(k8s_resources[1].yaml)
    /\ selector.some
    /\ Len(selector.v) >= 1
    /\ \A c \in 1..Len(selector.v) : ClauseSatisfied(selector.v[c], k8s_resources[1].yaml)
    /\ applications = <<>>
    /\ output = <<>>

\* ---------------------------------------------------------------- C2
C2_Keep(r) ==
    /\ Recognised(r.yaml)
    /\ ~IgnoreAnnotated(r.yaml)
    /\ selector.some =>
          \A c \in 1..Len(selector.v) : ClauseSatisfied(selector.v[c], r.yaml)

\* C2: get_applications returns, in order, exactly the documents of a
\* recognised kind that are not ignored and, when a selector is given,
\* satisfy all its clauses: Eq(k, v) when metadata.labels holds the string v
\* under k, Ne(k, v) when it does not (no labels, no key k, a non-string
\* value).  Without a selector the selector step drops nothing.
C2_SelectorIsConjunction ==
    pc # "parsed" =>
        [i \in 1..Len(applications) |->
            [file_name |-> applications[i].file_name, yaml |-> applications[i].yaml]]
        = SelectSeq(k8s_resources, C2_Keep)

\* A document whose label env is not a string is kept by two Ne clauses on
\* env.
C2_Witness ==
    /\ pc = "filtered"
    /\ selector.some
    /\ Len(selector.v) = 2
    /\ \A c \in 1..2 : selector.v[c].operator = "Ne" /\ selector.v[c].key = "env"
    /\ selector.v[1] # selector.v[2]
    /\ Len(applications) = 1
    /\ \E md \in Fields(applications[1].yaml, "metadata") :
          \E ls \in Fields(md, "labels") : Num(7) \in Fields(ls, "env")

\* ---------------------------------------------------------------- C3
SepCount(lines) == Cardinality({i \in 1..Len(lines) : lines[i] = SepLine})

\* The lines of chunk c of a file: those that are no separator and have c
\* separators before them, in order.
ChunkLines(lines, c) ==
    LET idx == {i \in 1..Len(lines) :
                    /\ lines[i] # SepLine
                    /\ Cardinality({j \in 1..(i - 1) : lines[j] = SepLine}) = c}
    IN  [k \in 1..Cardinality(idx) |-> lines[NthOf(idx, k)]]

\* The number of resources of the files before file f.
RECURSIVE Offset(_)
Offset(f) == IF f <= 1 THEN 0 ELSE Offset(f - 1) + 1 + SepCount(files[f - 1])

\* A document that patch_applications emits: a recognised kind, a mapping
\* with a project at the spec path.
Emittable(yaml) ==
    /\ Recognised(yaml)
    /\ \E kd \in Fields(yaml, "kind") :
          \E sp \in SpecVals(yaml, kd.s) : sp.t = "map" /\ Fields(sp, "project") # {}

\* C3: file f gives 1 + (its number of separator lines) resources, the
\* resource of chunk c being the parse of the chunk's lines alone; a chunk
\* with an unparsable line is Null, is never returned by get_applications
\* and is not in the output, and every chunk that holds a whole application
\* is emitted, whatever the other chunks hold.
C3_ChunksParsedIndependently ==
    /\ pc # "start" =>
          /\ Len(k8s_resources) = Offset(Len(files) + 1)
          /\ \A f \in 1..Len(files) :
                \A c \in 0..SepCount(files[f]) :
                    LET r == k8s_resources[Offset(f) + c + 1]
                        chunk == ChunkLines(files[f], c)
                    IN  /\ r.file_name = f
                        /\ r.yaml = from_str(chunk)
                        /\ (\E i \in 1..Len(chunk) : chunk[i] = BadLine) => r.yaml = Null
    /\ pc \in {"filtered", "done"} =>
          \A i \in 1..Len(applications) : applications[i].yaml # Null
    /\ pc = "done" =>
          /\ \A i \in 1..Len(OutputDocs) : OutputDocs[i] # Null
          /\ \A f \in 1..Len(files) :
                Cardinality({i \in 1..Len(patched) : patched[i].file_name = f})
                = Cardinality({c \in 0..SepCount(files[f]) :
                                 Emittable(from_str(ChunkLines(files[f], c)))})

\* A file with an unparsable chunk has another chunk in the output.
C3_Witness ==
    /\ pc = "done"
    /\ \E f \in 1..Len(files) :
          /\ \E i \in 1..Len(files[f]) : files[f][i] = BadLine
          /\ \E i \in 1..Len(patched) : patched[i].file_name = f

\* ---------------------------------------------------------------- C8
EmittableIdx == {j \in 1..Len(k8s_resources) : Emittable(k8s_resources[j].yaml)}

C7_EntryRule(before, after) ==
    IF /\ ~(\E ch \in Fields(before, "chart") : ch.t = "str")
       /\ \E u \in Fields(before, "repoURL") : u.t = "str" /\ contains(u.s, repo)
    THEN /\ Fields(after, "targetRevision") = {Str(branch)}
         /\ \A i \in 1..Len(before.m) :
               before.m[i].k # Str("targetRevision") =>
                   \E j \in 1..Len(after.m) : after.m[j] = before.m[i]
         /\ \A j \in 1..Len(after.m) :
               after.m[j].k # Str("targetRevision") =>
                   \E i \in 1..Len(before.m) : before.m[i] = after.m[j]
    ELSE after = before

\* C7: in a spec with no source field whose sources is a sequence, every
\* entry is patched by the rule of a single source, whatever the entries
\* before it are; in a spec with a source field, sources is as it was.
C7_MultiSource ==
    Returned =>
        /\ Len(patched) = Cardinality(KeptIdx)
        /\ \A k \in 1..Len(patched) :
              LET before == BodyOf(OriginOf(k))
                  after == BodyOf(patched[k])
              IN  IF Fields(before, "source") = {}
                  THEN \A ss \in Fields(before, "sources") :
                          ss.t = "seq" =>
                              \E ts \in Fields(after, "sources") :
                                  /\ ts.t = "seq"
                                  /\ Len(ts.q) = Len(ss.q)
                                  /\ \A e \in 1..Len(ss.q) :
                                        /\ C7_EntryRule(ss.q[e], ts.q[e])
                                        /\ ts.q[e] = redirect_source(ss.q[e], branch, repo)
                  ELSE Fields(after, "sources") = Fields(before, "sources")

\* The entry after a Helm chart entry was rewritten and the chart entry was
\* not.
C7_Witness ==
    /\ pc = "done"
    /\ Len(patched) = 1
    /\ Fields(BodyOf(applications[1]), "source") = {}
    /\ \E ss \in Fields(BodyOf(applications[1]), "sources") :
          \E ts \in Fields(BodyOf(patched[1]), "sources") :
              /\ ss.t = "seq" /\ ts.t = "seq" /\ Len(ss.q) = 2
              /\ Fields(ss.q[1], "chart") # {}
              /\ ts.q[1] = ss.q[1]
              /\ Fields(ss.q[2], "targetRevision") = {}
              /\ Fields(ts.q[2], "targetRevision") = {Str(branch)}

\* --------------------------------------------------------------- C10
\* C10: patch_applications applied to the applications it returned, with the
\* same branch and repo, returns them unchanged: none is dropped and the
\* second run does not panic.
C10_PatchIdempotent ==
    /\ pc = "redone" => repatched = patched
    /\ pc # "repanicked"

\* The first run removed the sync policy, redirected the destination and
\* rewrote the revision; the second run was made.
C10_Witness ==
    /\ pc = "redone"
    /\ Len(patched) = 1
    /\ LET before == BodyOf(applications[1])
           after == BodyOf(patched[1])
       IN  /\ Fields(before, "syncPolicy") # {}
           /\ \E d \in Fields(before, "destination") : Fields(d, "server") # {}
           /\ \E so \in Fields(before, "source") : Fields(so, "targetRevision") = {}
           /\ \E so \in Fields(after, "source") :
                 Fields(so, "targetRevision") = {Str(branch)}

(***************************************************************************)
(* Claims the code does not meet.  Each is stated for the applications     *)
(* that no other of these claims is about, so that what TLC reports is the *)
(* claim's own case.                                                       *)
(***************************************************************************)
MetadataPatchable(a) ==
    \A md \in Fields(a.yaml, "metadata") : md.t \in {"map", "null"}

ProjectPresent(a) == Fields(BodyOf(a), "project") # {}

DestinationPatchable(a) ==
    \A d \in Fields(BodyOf(a), "destination") : d.t \in {"map", "null"}

\* ---------------------------------------------------------------- C4
\* C4: every application with a mapping at its spec path is emitted with
\* metadata.namespace = "argocd", no syncPolicy and project = "default"
\* there, whether namespace, metadata or project were missing or held
\* another value.
C4_NamespaceSyncPolicyProject ==
    (/\ pc # "filtered"
     /\ \A i \in 1..Len(applications) :
           /\ SpecMaps(applications[i])
           /\ MetadataPatchable(applications[i])
           /\ DestinationPatchable(applications[i]))
    => /\ Returned
       /\ Len(patched) = Len(applications)
       /\ \A i \in 1..Len(patched) :
             /\ \E md \in Fields(patched[i].yaml, "metadata") :
                   Fields(md, "namespace") = {Str("argocd")}
             /\ Fields(BodyOf(patched[i]), "syncPolicy") = {}
             /\ Fields(BodyOf(patched[i]), "project") = {Str("default")}

\* ---------------------------------------------------------------- C5
\* C5: an application whose spec has a destination field, of any shape, is
\* emitted with destination.name = "in-cluster" and no destination.server;
\* one whose spec has none is emitted without one.
C5_DestinationInCluster ==
    (/\ pc # "filtered"
     /\ \A i \in 1..Len(applications) :
           /\ SpecMaps(applications[i])
           /\ MetadataPatchable(applications[i])
           /\ ProjectPresent(applications[i]))
    => /\ Returned
       /\ Len(patched) = Len(applications)
       /\ \A i \in 1..Len(patched) :
             IF Fields(BodyOf(applications[i]), "destination") = {}
             THEN Fields(BodyOf(patched[i]), "destination") = {}
             ELSE \E d \in Fields(BodyOf(patched[i]), "destination") :
                     /\ Fields(d, "name") = {Str("in-cluster")}
                     /\ Fields(d, "server") = {}

\* ---------------------------------------------------------------- C6
\* C6: in a spec with a source field, source.targetRevision is the branch
\* when source has no chart field and source.repoURL is a string that
\* contains repo, and is as it was (absent included) in every other case.
C6_SourceRevision ==
    Returned =>
        \A k \in 1..Len(patched) :
            \A before \in Fields(BodyOf(OriginOf(k)), "source") :
                \E after \in Fields(BodyOf(patched[k]), "source") :
                    Fields(after, "targetRevision")
                    = IF /\ Fields(before, "chart") = {}
                         /\ \E u \in Fields(before, "repoURL") :
                               u.t = "str" /\ contains(u.s, repo)
                      THEN {Str(branch)}
                      ELSE Fields(before, "targetRevision")

\* ---------------------------------------------------------------- C9
\* C9: for both kinds, an application whose spec path is missing or does not
\* lead to a mapping (a scalar or a sequence on the way included) is
\* dropped, the run returns, and the other applications are patched and
\* emitted in order.
C9_UnresolvedSpecDropped ==
    (/\ pc # "filtered"
     /\ \A i \in 1..Len(applications) :
           /\ MetadataPatchable(applications[i])
           /\ SpecMaps(applications[i]) =>
                 /\ ProjectPresent(applications[i])
                 /\ DestinationPatchable(applications[i]))
    => /\ Returned
       /\ Len(patched) = Cardinality(KeptIdx)
       /\ \A k \in 1..Len(patched) :
             /\ patched[k].kind = OriginOf(k).kind
             /\ Fields(BodyOf(patched[k]), "project") = {Str("default")}
       /\ SepCount(output) = Cardinality(KeptIdx)

====
